---------------------------- MODULE Spec2Model ----------------------------
(***************************************************************************)
(* A model of great_expectations/data_context/util.py:                     *)
(*   - find_substitution_candidates   (the placeholder finder)             *)
(*   - substitute_config_variable     (single-string substitution)         *)
(*   - substitute_all_config_variables (recursive structure substitution)  *)
(*   - instantiate_class_from_config  (the class instantiator)             *)
(*                                                                         *)
(* Python strings are sequences of one-character strings, so that slicing, *)
(* offsets and the regular expression are computed, not assumed.  Python   *)
(* values are records of one shape (type, s, n, keys, kids).               *)
(*                                                                         *)
(* Three specifications share the variables:                               *)
(*   Spec          one call of substitute_config_variable, step by step    *)
(*   SpecTraverse  one call of substitute_all_config_variables             *)
(*   SpecInst      one call of instantiate_class_from_config               *)
(***************************************************************************)
EXTENDS Integers, Sequences, FiniteSets

VARIABLES
    pc,                       \* position of the call being modelled
    arg,                      \* the template_str argument as passed by the caller
    template_str,             \* the local template_str, reassigned by each splice
    substitution_candidates,  \* the local queue of candidates
    config_variables_dict,    \* the variable store
    environ,                  \* os.environ
    result,                   \* what the call returned or raised
    seen,                     \* history: loop-head configurations already visited
    data,                     \* substitute_all_config_variables: the data argument
    config,                   \* instantiate_class_from_config: the caller's config
    config_defaults,          \* the caller's config_defaults mapping
    defaults_given,           \* FALSE when the caller passed config_defaults=None
    runtime_environment,      \* the runtime_environment mapping (when given)
    runtime_given,            \* FALSE when the caller passed runtime_environment=None
    call                      \* what the instantiator resolved and passed on

vars == <<pc, arg, template_str, substitution_candidates, config_variables_dict,
          environ, result, seen, data, config, config_defaults, defaults_given,
          runtime_environment, runtime_given, call>>

substVars == <<pc, arg, template_str, substitution_candidates,
               config_variables_dict, environ, result, seen>>
instVars == <<config, config_defaults, defaults_given, runtime_environment,
              runtime_given, call>>

-----------------------------------------------------------------------------
(* Bounds of the model.                                                    *)

\* Templates are concatenations of at most MaxTokens tokens.
MaxTokens == 3

\* A splice that would make the string longer than this is not taken.
MaxStrLen == 16

\* Loop iterations the whole-call operator follows before it reports that
\* the loop has not ended.
MaxIterations == 6

-----------------------------------------------------------------------------
(* Python values.                                                          *)

Min(a, b) == IF a < b THEN a ELSE b

PyStr(chars) == [type |-> "str", s |-> chars, n |-> 0, keys |-> <<>>, kids |-> <<>>]
PyInt(i) == [type |-> "int", s |-> <<>>, n |-> i, keys |-> <<>>, kids |-> <<>>]
PyNone == [type |-> "NoneType", s |-> <<>>, n |-> 0, keys |-> <<>>, kids |-> <<>>]
PyList(elems) == [type |-> "list", s |-> <<>>, n |-> 0, keys |-> <<>>, kids |-> elems]
PyDict(ks, vs) == [type |-> "dict", s |-> <<>>, n |-> 0, keys |-> ks, kids |-> vs]

\* isinstance(v, str)
IsStr(v) == v.type = "str"

\* bool(v) for the values os.getenv returns: None and "" are falsy.
Truthy(v) == IsStr(v) /\ v.s # <<>>

\* template_str[:i]  (Python clips an index beyond the end)
Prefix(t, i) == SubSeq(t, 1, Min(i, Len(t)))

\* template_str[i:]
Suffix(t, i) == SubSeq(t, i + 1, Len(t))

\* template_str[i:j]
Slice(t, i, j) == SubSeq(t, i + 1, Min(j, Len(t)))

-----------------------------------------------------------------------------
(* find_substitution_candidates: re.finditer over the pattern of two        *)
(* alternatives, the brace form (dollar, open brace, a shortest run of any *)
(* characters, close brace) and the bare form (dollar, an identifier).     *)

Letters == {"A", "B", "e", "v", "w", "x", "_"}
Digits == {"1"}

IsIdentStart(c) == c \in Letters
IsIdentChar(c) == c \in Letters \cup Digits

\* The 1-based index of the "}" closing a brace-form match that starts at i,
\* or 0: "${", then as few characters as possible ("." matches no newline).
BraceEnd(t, i) ==
    IF i + 1 <= Len(t) /\ t[i] = "$" /\ t[i + 1] = "{"
    THEN LET closers == {j \in (i + 2)..Len(t) :
                            /\ t[j] = "}"
                            /\ \A k \in (i + 2)..(j - 1) : t[k] # "\n"}
         IN IF closers = {} THEN 0
            ELSE CHOOSE j \in closers : \A k \in closers : j <= k
    ELSE 0

\* The 1-based index of the last character of a bare-form match that starts
\* at i, or 0: "$", an identifier start, then as many identifier characters
\* as follow.
BareEnd(t, i) ==
    IF i + 1 <= Len(t) /\ t[i] = "$" /\ IsIdentStart(t[i + 1])
    THEN CHOOSE j \in (i + 1)..Len(t) :
            /\ \A k \in (i + 1)..j : IsIdentChar(t[k])
            /\ (j = Len(t) \/ ~IsIdentChar(t[j + 1]))
    ELSE 0

\* dirty_match.replace("$", "").replace("{", "").replace("}", "")
RECURSIVE CleanMatch(_)
CleanMatch(m) ==
    IF m = <<>> THEN <<>>
    ELSE IF Head(m) \in {"$", "{", "}"} THEN CleanMatch(Tail(m))
         ELSE <<Head(m)>> \o CleanMatch(Tail(m))

\* The candidate of the match t[i..j] (1-based, inclusive): start and end
\* are match.start() and match.end(), 0-based with end exclusive.
Candidate(t, i, j) ==
    [match |-> SubSeq(t, i, j), clean_match |-> CleanMatch(SubSeq(t, i, j)),
     start |-> i - 1, end |-> j]

RECURSIVE ScanFrom(_, _)
ScanFrom(t, i) ==
    IF i > Len(t) THEN <<>>
    ELSE LET b == BraceEnd(t, i)
             w == BareEnd(t, i)
         IN IF b > 0 THEN <<Candidate(t, i, b)>> \o ScanFrom(t, b + 1)
            ELSE IF w > 0 THEN <<Candidate(t, i, w)>> \o ScanFrom(t, w + 1)
            ELSE ScanFrom(t, i + 1)

find_substitution_candidates(t) == ScanFrom(t, 1)

-----------------------------------------------------------------------------
(* substitute_config_variable.                                             *)

\* What a call has returned or raised so far.
Pending == [kind |-> "pending", value |-> PyNone, missing_config_variable |-> <<>>]
Returned(v) == [kind |-> "return", value |-> v, missing_config_variable |-> <<>>]
Raised(k) == [kind |-> k, value |-> PyNone, missing_config_variable |-> <<>>]

\* MissingConfigVariableError(..., missing_config_variable=name)
MissingConfigVariableError(name) ==
    [kind |-> "MissingConfigVariableError", value |-> PyNone,
     missing_config_variable |-> name]

\* os.getenv(name): the value, or None when the variable is not set.
os_getenv(env, name) ==
    IF name \in DOMAIN env THEN PyStr(env[name]) ELSE PyNone

\* A plausible slip: the variable store consulted before the environment.
Lookup_StoreFirst(name, env, dict) ==
    IF name \in DOMAIN dict THEN [src |-> "dict", val |-> dict[name]]
    ELSE IF Truthy(os_getenv(env, name))
         THEN [src |-> "env", val |-> os_getenv(env, name)]
         ELSE [src |-> "missing", val |-> PyNone]

\* The if / elif / else chain of both branches: the environment value when it
\* is set and not empty, else the store's entry, else nothing.
Lookup(name, env, dict) ==
    LET env_variable == os_getenv(env, name)
    IN IF Truthy(env_variable) THEN [src |-> "env", val |-> env_variable]
       ELSE IF name \in DOMAIN dict THEN [src |-> "dict", val |-> dict[name]]
       ELSE [src |-> "missing", val |-> PyNone]

\* template_str[:start] + value + template_str[end:]
Splice(t, cand, value) ==
    Prefix(t, cand.start) \o value \o Suffix(t, cand.end)

\* A plausible slip: the error carries the raw match, "$" and braces included.
RaiseMissing_RawMatch(cand) == MissingConfigVariableError(cand.match)

\* raise MissingConfigVariableError(..., missing_config_variable=clean_match)
RaiseMissing(cand) == MissingConfigVariableError(cand.clean_match)

\* A plausible slip: the cleaned name compared with the template.
IsWholeString_CleanName(cand, t) == cand.clean_match = t

\* substitution_candidate["match"] == template_str
IsWholeString(cand, t) == cand.match = t

\* Lines 157-160: None is returned as it is; re.finditer raises TypeError on
\* a value that is no string; otherwise the candidates are found.
CallStep(v) ==
    IF v.type = "NoneType"
    THEN [pc |-> "returned", t |-> v, cands |-> <<>>, result |-> Returned(v)]
    ELSE IF ~IsStr(v)
    THEN [pc |-> "raised", t |-> v, cands |-> <<>>, result |-> Raised("TypeError")]
    ELSE LET cands == find_substitution_candidates(v.s)
         IN [pc |-> IF Len(cands) = 1 THEN "single" ELSE "loop",
             t |-> v, cands |-> cands, result |-> Pending]

\* Lines 164-215: the branch of exactly one candidate.  The queue is left
\* empty: the re-scan after the splice is commented out in the source.
SingleStep(t, cands, env, dict) ==
    LET cand == Head(cands)
        found == Lookup(cand.clean_match, env, dict)
        spliced == [pc |-> "loop", t |-> PyStr(Splice(t.s, cand, found.val.s)),
                    cands |-> Tail(cands), result |-> Pending]
    IN CASE found.src = "env" -> spliced
         [] found.src = "dict" /\ IsStr(found.val) -> spliced
         [] found.src = "dict" /\ ~IsStr(found.val) /\ IsWholeString(cand, t.s) ->
                [pc |-> "returned", t |-> t, cands |-> Tail(cands),
                 result |-> Returned(found.val)]
         [] found.src = "dict" /\ ~IsStr(found.val) /\ ~IsWholeString(cand, t.s) ->
                [pc |-> "raised", t |-> t, cands |-> Tail(cands),
                 result |-> Raised("Exception")]
         [] OTHER ->
                [pc |-> "raised", t |-> t, cands |-> Tail(cands),
                 result |-> RaiseMissing(cand)]

\* Lines 219-250: one iteration of the while loop.  The environment's value
\* is spliced without a re-scan; the store's value is concatenated (which
\* raises TypeError when it is no string) and the string is scanned again.
LoopStep(t, cands, env, dict) ==
    LET cand == Head(cands)
        found == Lookup(cand.clean_match, env, dict)
    IN CASE found.src = "env" ->
                [pc |-> "loop", t |-> PyStr(Splice(t.s, cand, found.val.s)),
                 cands |-> Tail(cands), result |-> Pending]
         [] found.src = "dict" /\ IsStr(found.val) ->
                LET new == Splice(t.s, cand, found.val.s)
                IN [pc |-> "loop", t |-> PyStr(new),
                    cands |-> find_substitution_candidates(new),
                    result |-> Pending]
         [] found.src = "dict" /\ ~IsStr(found.val) ->
                [pc |-> "raised", t |-> t, cands |-> Tail(cands),
                 result |-> Raised("TypeError")]
         [] OTHER ->
                [pc |-> "raised", t |-> t, cands |-> Tail(cands),
                 result |-> RaiseMissing(cand)]

-----------------------------------------------------------------------------
(* The whole call of substitute_config_variable, and the traversal.        *)

\* The call followed to its end: the result, or "unfinished" when the while
\* loop is still running after `fuel` iterations.
RECURSIVE RunFrom(_, _, _, _)
RunFrom(st, env, dict, fuel) ==
    IF st.pc \in {"returned", "raised"} THEN st.result
    ELSE IF st.pc = "single"
    THEN RunFrom(SingleStep(st.t, st.cands, env, dict), env, dict, fuel)
    ELSE IF st.cands = <<>> THEN Returned(st.t)
    ELSE IF fuel = 0 THEN Raised("unfinished")
    ELSE RunFrom(LoopStep(st.t, st.cands, env, dict), env, dict, fuel - 1)

substitute_config_variable(v, env, dict) ==
    RunFrom(CallStep(v), env, dict, MaxIterations)

\* Lines 321-330: a dict gives a dict of the same keys, a list a list of the
\* same length, anything else goes to substitute_config_variable.  An
\* exception raised under the first failing element ends the call.  (The
\* DataContextConfig of lines 318-319 is dumped to a dict by its schema
\* before this point.)
RECURSIVE substitute_all_config_variables(_, _, _)
substitute_all_config_variables(d, env, dict) ==
    IF d.type \in {"dict", "list"}
    THEN LET rs == [i \in DOMAIN d.kids |->
                        substitute_all_config_variables(d.kids[i], env, dict)]
             failing == {i \in DOMAIN d.kids : rs[i].kind # "return"}
         IN IF failing = {}
            THEN Returned([d EXCEPT !.kids = [i \in DOMAIN d.kids |-> rs[i].value]])
            ELSE rs[CHOOSE i \in failing : \A j \in failing : i <= j]
    ELSE substitute_config_variable(d, env, dict)

-----------------------------------------------------------------------------
(* instantiate_class_from_config.  Mappings are functions over key names;  *)
(* values are opaque tokens.                                               *)

\* Python's None among the values of a mapping.
NoneValue == "<None>"

\* The runtime_environment mapping itself, passed as one value (line 82).
WholeRuntimeEnvironment == "<the runtime_environment mapping>"

EmptyMapping == [k \in {} |-> NoneValue]

\* dict.get(key): None when the key is absent.
Get(m, key) == IF key \in DOMAIN m THEN m[key] ELSE NoneValue

\* The mapping after dict.pop(key, None).
Pop(m, key) == [k \in DOMAIN m \ {key} |-> m[k]]

\* The mapping after m.update(other).
Update(m, other) ==
    [k \in DOMAIN m \cup DOMAIN other |-> IF k \in DOMAIN other THEN other[k] ELSE m[k]]

\* verify_dynamic_loading_support: the modules that can be loaded.
LoadableModules == {"pkg.mod"}

\* load_class: the classes each module holds.
ClassExists(module_name, class_name) ==
    module_name \in LoadableModules /\ class_name \in {"Foo", "Bar"}

\* inspect.getfullargspec(class_.__init__)[0][1:] of the classes: Foo takes
\* a, conn and runtime_environment; Bar takes a and class_name.
ClassArgspec(class_name) ==
    IF class_name = "Foo" THEN {"a", "conn", "runtime_environment"}
    ELSE {"a", "class_name"}

\* A plausible slip: lines 41 and 61 left out.
DiscardDefault_Kept(defaults, key) == defaults

\* Lines 41, 61: config_defaults.pop(key, None), the value not used.
DiscardDefault(defaults, key) == Pop(defaults, key)

\* Lines 29-41 and 45-61: the name under `key`, from config or else from
\* config_defaults, and config_defaults after its pop.
ResolveName(cfg, defaults, key) ==
    IF Get(cfg, key) = NoneValue
    THEN IF key \in DOMAIN defaults
         THEN [ok |-> TRUE, name |-> defaults[key], defaults |-> Pop(defaults, key)]
         ELSE [ok |-> FALSE, name |-> NoneValue, defaults |-> defaults]
    ELSE [ok |-> TRUE, name |-> cfg[key], defaults |-> DiscardDefault(defaults, key)]

\* A plausible slip: the update the other way round, the defaults winning.
Merge_DefaultsWin(defaults, cfg) == Update(cfg, defaults)

\* Lines 65-66: a copy of config_defaults, updated with config.
Merge(defaults, cfg) == Update(defaults, cfg)

\* Lines 67-82: what runtime_environment adds to the merged arguments.
WithRuntimeEnvironment(merged, argspec, renv) ==
    LET missing_args == argspec \ DOMAIN merged
        requested == [k \in missing_args \cap DOMAIN renv |-> renv[k]]
        added == Update(merged, requested)
    IN IF "runtime_environment" \in missing_args
       THEN Update(added, [k \in {"runtime_environment"} |-> WholeRuntimeEnvironment])
       ELSE added

\* Line 27: config is rebound to a deep copy, so the pops of lines 29 and 45
\* act on the copy and the caller's mapping stays what it was.
CallerConfig(original, local) == original

NoCall ==
    [outcome |-> "pending", module_name |-> NoneValue, class_name |-> NoneValue,
     kwargs |-> EmptyMapping, config |-> EmptyMapping,
     config_defaults |-> EmptyMapping]

\* Lines 21-94.  The outcome, the names resolved, the keyword arguments the
\* constructor is called with, and the two mappings as the call leaves them.
instantiate_class_from_config(cfg, renv_given, renv, defaults_in) ==
    LET m == ResolveName(cfg, defaults_in, "module_name")
        cfg1 == Pop(cfg, "module_name")
        c == ResolveName(cfg1, m.defaults, "class_name")
        cfg2 == Pop(cfg1, "class_name")
        merged == Merge(c.defaults, cfg2)
        kwargs == IF renv_given
                  THEN WithRuntimeEnvironment(merged, ClassArgspec(c.name), renv)
                  ELSE merged
        ended(outcome, defaults, local) ==
            [outcome |-> outcome, module_name |-> m.name, class_name |-> NoneValue,
             kwargs |-> EmptyMapping, config |-> CallerConfig(cfg, local),
             config_defaults |-> defaults]
    IN IF ~m.ok THEN ended("KeyError", m.defaults, cfg1)
       ELSE IF m.name \notin LoadableModules
       THEN ended("UnsupportedDependency", m.defaults, cfg1)
       ELSE IF ~c.ok THEN ended("KeyError", c.defaults, cfg2)
       ELSE IF ~ClassExists(m.name, c.name)
       THEN [ended("ClassNotFound", c.defaults, cfg2) EXCEPT !.class_name = c.name]
       ELSE [outcome |-> IF DOMAIN kwargs \subseteq ClassArgspec(c.name)
                         THEN "return" ELSE "TypeError",
             module_name |-> m.name, class_name |-> c.name, kwargs |-> kwargs,
             config |-> CallerConfig(cfg, cfg2), config_defaults |-> c.defaults]

-----------------------------------------------------------------------------
(* The inputs of a call of substitute_config_variable.                     *)

NameA == <<"A">>
NameB == <<"B">>

Tokens ==
    { <<"$", "{", "A", "}">>, <<"$", "{", "B", "}">>, <<"$", "A">>,
      <<"x">>, <<"/">> }

RECURSIVE TokenStrings(_)
TokenStrings(k) ==
    IF k = 0 THEN {<<>>}
    ELSE TokenStrings(k - 1) \cup
         {s \o tok : s \in TokenStrings(k - 1), tok \in Tokens}

\* The template_str arguments: strings, None, and a number.
ArgValues == {PyStr(s) : s \in TokenStrings(MaxTokens)} \cup {PyNone, PyInt(5)}

\* A mapping over the names A and B; <<>> leaves a name out.
MappingOf(a, b) ==
    [nm \in (IF a = <<>> THEN {} ELSE {NameA}) \cup
            (IF b = <<>> THEN {} ELSE {NameB})
        |-> IF nm = NameA THEN a[1] ELSE b[1]]

\* Variable stores: plain strings, strings that hold placeholders (of the
\* other name, of the own name) and values that are no strings.
Stores ==
    {MappingOf(a, b) :
        a \in {<<>>, <<PyStr(<<"v">>)>>, <<PyStr(<<"$", "{", "B", "}">>)>>,
               <<PyStr(<<"$", "A">>)>>, <<PyInt(5432)>>},
        b \in {<<>>, <<PyStr(<<"w">>)>>, <<PyStr(<<"$", "{", "A", "}">>)>>,
               <<PyInt(7)>>}}

\* Environments: a name not set, set to the empty string, set to a value.
Environments ==
    {MappingOf(a, b) :
        a \in {<<>>, << <<>> >>, << <<"e">> >>},
        b \in {<<>>, << <<"e", "e">> >>}}

-----------------------------------------------------------------------------
(* One call of substitute_config_variable, step by step.                   *)

InstIdle ==
    /\ config = EmptyMapping
    /\ config_defaults = EmptyMapping
    /\ defaults_given = FALSE
    /\ runtime_environment = EmptyMapping
    /\ runtime_given = FALSE
    /\ call = NoCall

Init ==
    /\ pc = "start"
    /\ arg \in ArgValues
    /\ template_str = arg
    /\ substitution_candidates = <<>>
    /\ config_variables_dict \in Stores
    /\ environ \in Environments
    /\ result = Pending
    /\ seen = {}
    /\ data = PyNone
    /\ InstIdle

Enter(st) ==
    /\ pc' = st.pc
    /\ template_str' = st.t
    /\ substitution_candidates' = st.cands
    /\ result' = st.result
    /\ Len(st.t.s) <= MaxStrLen
    /\ UNCHANGED <<arg, config_variables_dict, environ, data>>
    /\ UNCHANGED instVars

\* Lines 157-160.
Call ==
    /\ pc = "start"
    /\ Enter(CallStep(template_str))
    /\ UNCHANGED seen

\* Lines 164-215.
SingleCandidate ==
    /\ pc = "single"
    /\ Enter(SingleStep(template_str, substitution_candidates, environ,
                        config_variables_dict))
    /\ UNCHANGED seen

\* Lines 219-250.
LoopIteration ==
    /\ pc = "loop"
    /\ substitution_candidates # <<>>
    /\ Enter(LoopStep(template_str, substitution_candidates, environ,
                      config_variables_dict))
    /\ seen' = seen \cup {<<template_str.s, substitution_candidates>>}

\* Line 304.
Return ==
    /\ pc = "loop"
    /\ substitution_candidates = <<>>
    /\ pc' = "returned"
    /\ result' = Returned(template_str)
    /\ UNCHANGED <<arg, template_str, substitution_candidates,
                   config_variables_dict, environ, seen, data>>
    /\ UNCHANGED instVars

Next == Call \/ SingleCandidate \/ LoopIteration \/ Return

Spec == Init /\ [][Next]_vars

-----------------------------------------------------------------------------
(* Properties of substitute_config_variable, checked under Spec.           *)

Done == pc \in {"returned", "raised"}

\* The candidates of the argument, when it is a string.
ArgCandidates == IF IsStr(arg) THEN find_substitution_candidates(arg.s) ELSE <<>>

\* os.getenv(name) is None or empty.
NoEnvValue(name) == ~Truthy(os_getenv(environ, name))

InStore(name) == name \in DOMAIN config_variables_dict

\* The candidate the next step pops, in a state where a step will pop one.
AboutToResolve == pc \in {"single", "loop"} /\ substitution_candidates # <<>>
NextCandidate == Head(substitution_candidates)

\* C1: with store A -> placeholder of B, B -> placeholder-free string, and
\* neither name set in the environment, a template whose only placeholder is
\* A comes back fully expanded (A's placeholder replaced by B's value), and
\* the returned string holds no placeholder the store can resolve.
C1_RecursiveExpansion ==
    ( /\ Done
      /\ Len(ArgCandidates) = 1
      /\ ArgCandidates[1].clean_match = NameA
      /\ NameA \notin DOMAIN environ /\ NameB \notin DOMAIN environ
      /\ InStore(NameA) /\ InStore(NameB)
      /\ IsStr(config_variables_dict[NameA])
      /\ IsStr(config_variables_dict[NameB])
      /\ LET inner == find_substitution_candidates(config_variables_dict[NameA].s)
         IN /\ Len(inner) = 1
            /\ inner[1].clean_match = NameB
            /\ inner[1].match = config_variables_dict[NameA].s
      /\ find_substitution_candidates(config_variables_dict[NameB].s) = <<>> )
    => /\ result.kind = "return"
       /\ result.value =
            PyStr(Splice(arg.s, ArgCandidates[1], config_variables_dict[NameB].s))
       /\ \A i \in DOMAIN find_substitution_candidates(result.value.s) :
            ~InStore(find_substitution_candidates(result.value.s)[i].clean_match)

C4_NonStringNeedsWholeString ==
    ( /\ Done
      /\ \A i \in DOMAIN ArgCandidates :
            InStore(ArgCandidates[i].clean_match)
            \/ ~NoEnvValue(ArgCandidates[i].clean_match)
      /\ \E i \in DOMAIN ArgCandidates :
            /\ ArgCandidates[i].match # arg.s
            /\ NoEnvValue(ArgCandidates[i].clean_match)
            /\ InStore(ArgCandidates[i].clean_match)
            /\ ~IsStr(config_variables_dict[ArgCandidates[i].clean_match]) )
    => result.kind = "Exception"

\* The template is one placeholder and nothing else, its name has no
\* environment value and maps to a store value that is no string.
WholeStringNonString ==
    /\ Len(ArgCandidates) = 1
    /\ ArgCandidates[1].match = arg.s
    /\ NoEnvValue(ArgCandidates[1].clean_match)
    /\ InStore(ArgCandidates[1].clean_match)
    /\ ~IsStr(config_variables_dict[ArgCandidates[1].clean_match])

\* C5: for a template that is exactly one placeholder whose name has no
\* environment value and maps to a non-string store value, the call returns
\* that stored value itself, type and all.
C5_TypePreserving ==
    (WholeStringNonString /\ pc \notin {"start", "single"})
    => /\ pc = "returned"
       /\ result = Returned(config_variables_dict[ArgCandidates[1].clean_match])

\* C5's case has happened: such a call returned, and returned a number.
C5_Witness ==
    /\ WholeStringNonString
    /\ pc = "returned"
    /\ result.value.type = "int"

\* C9: at every splice of the loop the candidate's offsets locate it in the
\* current string: the text between start and end is the recorded match.
C9_NoStaleOffsets ==
    ( /\ pc = "loop"
      /\ substitution_candidates # <<>>
      /\ \/ ~NoEnvValue(NextCandidate.clean_match)
         \/ /\ InStore(NextCandidate.clean_match)
            /\ IsStr(config_variables_dict[NextCandidate.clean_match]) )
    => Slice(template_str.s, NextCandidate.start, NextCandidate.end)
          = NextCandidate.match

\* C10: the call terminates.  The loop is deterministic in (template_str,
\* substitution_candidates), the store and the environment being fixed, so it
\* terminates only if it never stands at the head of the loop in a
\* configuration it has stood in before.
C10_Terminates ==
    pc = "loop" => <<template_str.s, substitution_candidates>> \notin seen

-----------------------------------------------------------------------------
(* One call of substitute_all_config_variables.                            *)

Leaves ==
    {PyStr(<<"$", "{", "A", "}">>), PyStr(<<"$", "A", "/", "$", "A">>),
     PyInt(5), PyNone}

\* Lists of one or two elements of S, dicts of one or two keys over S.
ContainersOf(S) ==
    {PyList(<<x>>) : x \in S} \cup {PyList(<<x, y>>) : x \in S, y \in S}
    \cup {PyDict(<<k>>, <<x>>) : k \in {"k", "k2"}, x \in S}
    \cup {PyDict(<<"k", "k2">>, <<x, y>>) : x \in S, y \in S}

\* Structures of depth three at most, the outermost of one element.
DataValues ==
    LET level1 == Leaves \cup ContainersOf(Leaves)
        level2 == level1 \cup ContainersOf(level1)
    IN level2 \cup {PyList(<<x>>) : x \in level2}
              \cup {PyDict(<<"k">>, <<x>>) : x \in level2}

TraverseStores ==
    {MappingOf(a, <<>>) : a \in {<<>>, <<PyStr(<<"x">>)>>, <<PyInt(5432)>>}}

TraverseEnvironments == {MappingOf(a, <<>>) : a \in {<<>>, << <<"e">> >>}}

InitTraverse ==
    /\ pc = "start"
    /\ data \in DataValues
    /\ config_variables_dict \in TraverseStores
    /\ environ \in TraverseEnvironments
    /\ arg = PyNone
    /\ template_str = PyNone
    /\ substitution_candidates = <<>>
    /\ result = Pending
    /\ seen = {}
    /\ InstIdle

\* Lines 307-330.
Traverse ==
    /\ pc = "start"
    /\ result' = substitute_all_config_variables(data, environ, config_variables_dict)
    /\ pc' = IF result'.kind = "return" THEN "returned" ELSE "raised"
    /\ UNCHANGED <<arg, template_str, substitution_candidates,
                   config_variables_dict, environ, seen, data>>
    /\ UNCHANGED instVars

NextTraverse == Traverse

SpecTraverse == InitTraverse /\ [][NextTraverse]_vars

\* Every string leaf of d is one substitute_config_variable returns for.
RECURSIVE StringLeavesReturn(_)
StringLeavesReturn(d) ==
    IF d.type \in {"dict", "list"}
    THEN \A i \in DOMAIN d.kids : StringLeavesReturn(d.kids[i])
    ELSE IsStr(d) =>
            substitute_config_variable(d, environ, config_variables_dict).kind = "return"

\* d with each string leaf replaced by what substitute_config_variable
\* returns for it: keys, lengths and every other leaf as they are.
RECURSIVE LeavesSubstituted(_)
LeavesSubstituted(d) ==
    IF d.type \in {"dict", "list"}
    THEN [d EXCEPT !.kids = [i \in DOMAIN d.kids |-> LeavesSubstituted(d.kids[i])]]
    ELSE IF IsStr(d)
         THEN substitute_config_variable(d, environ, config_variables_dict).value
         ELSE d

\* C6: the traversal returns a structure of the same keys and lengths in
\* which each string leaf is substitute_config_variable's result for it and
\* every other scalar leaf (None, a number) is unchanged, without error.
C6_ShapePreserved ==
    (pc # "start" /\ StringLeavesReturn(data))
    => result = Returned(LeavesSubstituted(data))

-----------------------------------------------------------------------------
(* One call of instantiate_class_from_config.                              *)

Absent == "<absent>"

\* The mappings that, key by key, leave the key out or give it one of the
\* values of options[key].
MappingsOver(options) ==
    LET values == UNION {options[k] : k \in DOMAIN options}
    IN {[k \in {k \in DOMAIN f : f[k] # Absent} |-> f[k]] :
            f \in {g \in [DOMAIN options -> values] :
                        \A k \in DOMAIN options : g[k] \in options[k]}}

Configs ==
    MappingsOver(
        [k \in {"module_name", "class_name", "a", "runtime_environment"} |->
            CASE k = "module_name" -> {Absent, NoneValue, "pkg.mod", "nopkg"}
              [] k = "class_name" -> {Absent, NoneValue, "Foo", "Bar", "Nope"}
              [] k = "a" -> {Absent, "c_a"}
              [] OTHER -> {Absent, "c_re"}])

Defaults ==
    MappingsOver(
        [k \in {"module_name", "class_name", "a", "conn"} |->
            CASE k = "module_name" -> {Absent, "pkg.mod"}
              [] k = "class_name" -> {Absent, "Foo"}
              [] k = "a" -> {Absent, "d_a"}
              [] OTHER -> {Absent, "d_conn"}])

RuntimeEnvironments ==
    MappingsOver(
        [k \in {"a", "conn", "class_name", "runtime_environment"} |->
            CASE k = "a" -> {Absent, "r_a"}
              [] k = "conn" -> {Absent, "r_conn"}
              [] k = "class_name" -> {Absent, "r_class"}
              [] OTHER -> {Absent, "r_re"}])

InitInst ==
    /\ pc = "start"
    /\ config \in Configs
    /\ defaults_given \in BOOLEAN
    /\ config_defaults \in IF defaults_given THEN Defaults ELSE {EmptyMapping}
    /\ runtime_given \in BOOLEAN
    /\ runtime_environment \in
            IF runtime_given THEN RuntimeEnvironments ELSE {EmptyMapping}
    /\ call = NoCall
    /\ arg = PyNone
    /\ template_str = PyNone
    /\ substitution_candidates = <<>>
    /\ config_variables_dict = EmptyMapping
    /\ environ = EmptyMapping
    /\ result = Pending
    /\ seen = {}
    /\ data = PyNone

\* Lines 21-94.  With config_defaults=None the function works on a dict of
\* its own (lines 24-25) and the caller has no mapping to see changed.
Instantiate ==
    /\ pc = "start"
    /\ call' = instantiate_class_from_config(config, runtime_given,
                                             runtime_environment, config_defaults)
    /\ pc' = IF call'.outcome = "return" THEN "returned" ELSE "raised"
    /\ config' = call'.config
    /\ config_defaults' = IF defaults_given THEN call'.config_defaults
                          ELSE config_defaults
    /\ UNCHANGED <<defaults_given, runtime_environment, runtime_given>>
    /\ UNCHANGED <<arg, template_str, substitution_candidates,
                   config_variables_dict, environ, result, seen, data>>

NextInst == Instantiate

SpecInst == InitInst /\ [][NextInst]_vars

NameKeys == {"module_name", "class_name"}

\* config gives a value (not None) under key.
Supplies(m, key) == key \in DOMAIN m /\ m[key] # NoneValue

\* The name the claim expects: config's when config supplies it, else the
\* one of config_defaults.
ExpectedName(key) ==
    IF Supplies(config, key) THEN config[key] ELSE config_defaults[key]

\* The part of C7 that does not concern the keyword arguments: on a
\* successful call both names are config's when config supplies them and
\* config_defaults' otherwise, config_defaults is left without either key,
\* and the caller's config is unchanged.
NamesResolvedAndConsumed ==
    /\ call'.module_name = ExpectedName("module_name")
    /\ call'.class_name = ExpectedName("class_name")
    /\ NameKeys \cap DOMAIN config_defaults' = {}
    /\ config' = config

\* C7 as claimed: on every successful call the names are resolved and
\* consumed as above, and neither module_name nor class_name is among the
\* keyword arguments passed to the constructor.
C7_NamesNeverPassed ==
    [][ (pc = "start" /\ call'.outcome = "return")
        => /\ NamesResolvedAndConsumed
           /\ NameKeys \cap DOMAIN call'.kwargs = {} ]_vars

\* C7 amended: the names are resolved and consumed as above, and
\* module_name or class_name is among the keyword arguments only when a
\* runtime_environment is given, the constructor declares a parameter of
\* that name and runtime_environment has an entry for it, whose value is
\* then the one passed: never a value of config or config_defaults.
C7_NamesConsumed ==
    [][ (pc = "start" /\ call'.outcome = "return")
        => /\ NamesResolvedAndConsumed
           /\ \A k \in NameKeys \cap DOMAIN call'.kwargs :
                /\ runtime_given
                /\ k \in ClassArgspec(call'.class_name)
                /\ k \in DOMAIN runtime_environment
                /\ call'.kwargs[k] = runtime_environment[k] ]_vars

\* C7's case has happened: a successful call whose config supplied
\* class_name but no module_name, which came from config_defaults; config
\* still holds its class_name and config_defaults has lost its module_name.
C7_Witness ==
    /\ pc = "returned"
    /\ call.outcome = "return"
    /\ defaults_given
    /\ "module_name" \notin DOMAIN config
    /\ Supplies(config, "class_name")
    /\ call.class_name = config["class_name"]
    /\ call.module_name = "pkg.mod"
    /\ NameKeys \cap DOMAIN config_defaults = {}
    /\ NameKeys \cap DOMAIN call.kwargs = {}

\* config_defaults overlaid by config, the two names left out.
MergedArguments ==
    [k \in (DOMAIN config \cup DOMAIN config_defaults) \ NameKeys |->
        IF k \in DOMAIN config THEN config[k] ELSE config_defaults[k]]

\* The declared parameters absent from the merge and present in
\* runtime_environment.
Injected(class_name) ==
    (ClassArgspec(class_name) \ DOMAIN MergedArguments) \cap DOMAIN runtime_environment

\* The constructor was called (it returned or raised TypeError) and a
\* runtime_environment was given.
ConstructedWithRuntime ==
    pc = "start" /\ runtime_given /\ call'.outcome \in {"return", "TypeError"}

\* C8 as claimed: with a runtime_environment the keyword arguments are the
\* merge plus, for each declared parameter absent from the merge and present
\* in runtime_environment, runtime_environment's value.
C8_RuntimeInjectionOnly ==
    [][ ConstructedWithRuntime
        => call'.kwargs =
             [k \in DOMAIN MergedArguments \cup Injected(call'.class_name) |->
                IF k \in DOMAIN MergedArguments THEN MergedArguments[k]
                ELSE runtime_environment[k]] ]_vars

\* The constructor declares runtime_environment and the merge has none.
WholeRequested(class_name) ==
    "runtime_environment" \in ClassArgspec(class_name) \ DOMAIN MergedArguments

\* C8 amended: the keyword arguments are the merge (config winning), plus
\* runtime_environment's value for each declared parameter absent from the
\* merge and present in runtime_environment, except that a declared
\* parameter named runtime_environment that is absent from the merge
\* receives the whole runtime_environment mapping, whether or not the mapping
\* has an entry of that name.  No key of the merge is overridden.
C8_RuntimeInjection ==
    [][ ConstructedWithRuntime
        => LET whole == IF WholeRequested(call'.class_name)
                        THEN {"runtime_environment"} ELSE {}
           IN call'.kwargs =
                [k \in DOMAIN MergedArguments \cup Injected(call'.class_name)
                        \cup whole |->
                    IF k \in DOMAIN MergedArguments THEN MergedArguments[k]
                    ELSE IF k \in whole THEN WholeRuntimeEnvironment
                    ELSE runtime_environment[k]] ]_vars

\* C8's case has happened: conn, in neither config nor config_defaults, was
\* passed with runtime_environment's value, while a, which config supplies
\* and config_defaults and runtime_environment also hold, kept config's.
C8_Witness ==
    /\ pc = "returned"
    /\ call.outcome = "return"
    /\ runtime_given
    /\ "conn" \in DOMAIN runtime_environment
    /\ "conn" \notin DOMAIN config \cup DOMAIN config_defaults
    /\ call.kwargs["conn"] = runtime_environment["conn"]
    /\ "a" \in DOMAIN config /\ "a" \in DOMAIN config_defaults
    /\ "a" \in DOMAIN runtime_environment
    /\ call.kwargs["a"] = config["a"]
    /\ config["a"] # config_defaults["a"]

=============================================================================
